---- MODULE Spec2Model ----
(***************************************************************************)
(* The chat backend of agents-generator-api: ElizaController (initSession, *)
(* chat), ElizaGeneratorAgent (initializeSession, generateReply,           *)
(* generateCharacterFile, addStreamLogging), LLMModelManager.getInstance   *)
(* and the Session / Message / CharacterFile tables of schema.prisma.      *)
(* Every await of a handler that touches shared state is one step, so      *)
(* overlapping requests interleave at the awaits as they do on the Node    *)
(* event loop.                                                             *)
(***************************************************************************)
EXTENDS Naturals, Sequences, FiniteSets, TLC

VARIABLES sessions, messages, characterFiles, now, llmInstance, env, req, initResponses

vars == <<sessions, messages, characterFiles, now, llmInstance, env, req, initResponses>>

----------------------------------------------------------------------------
(* Bounds of the model. *)

\* session ids that createSession can hand out
MaxSessions == 2
\* request slots: handler invocations that may overlap
MaxRequests == 2
\* chunks one provider chain emits before it completes or raises
MaxChunks == 2

(* Program constants. *)

\* similaritySearch(userMessage, 3)
TopK == 3

----------------------------------------------------------------------------
(* Input domains. *)

Requests == 1..MaxRequests
SessionIds == 1..MaxSessions
\* req.body.sessionId; 0 stands for an absent (falsy) sessionId
SessionArgs == 0..MaxSessions
UserMsgs == {"u", "v"}
\* chunk.reply of a parsed reply chunk; "" is a falsy reply
ReplyTexts == {"", "a", "b"}
\* parsed character objects (always truthy)
DocValues == {"d1", "d2"}
\* process.env.ANTHROPIC_API_KEY || ''
ApiKeys == {"", "sk"}
\* values a failing generateCharacterFile / createCharacterFile can throw:
\* an OutputParserException, any other Error, or a value whose `message`
\* is not a string (the catch casts `unknown` to LLMError)
ThrownValues == {"OutputParserException", "Error", "nonStringMessage"}

----------------------------------------------------------------------------
(* Pure helpers. *)

RECURSIVE Join(_, _)
\* Array.prototype.join
Join(lines, sep) ==
  IF lines = <<>> THEN ""
  ELSE IF Len(lines) = 1 THEN lines[1]
  ELSE lines[1] \o sep \o Join(Tail(lines), sep)

\* Array.prototype.slice(0, n)
Slice(s, n) == SubSeq(s, 1, IF n < Len(s) THEN n ELSE Len(s))

\* JS truthiness of a string
Truthy(s) == s # ""

IsPrefix(s, t) == Len(s) <= Len(t) /\ SubSeq(t, 1, Len(s)) = s

----------------------------------------------------------------------------
(* Session Store: the tables of schema.prisma behind DatabaseService. *)

\* db.sessions.getSessionById(id): the row or null
getSessionById(id) == id \in sessions

\* @default(uuid()): an id no session has
FreshSessionId == CHOOSE id \in SessionIds : id \notin sessions /\ \A j \in SessionIds : j \notin sessions => id <= j

\* db.messages.createMessage({content, role, sessionId}): appends one row to
\* the rows of the session (the table is kept per sessionId, its index)
createMessage(table, content, role, sessionId) ==
  [table EXCEPT ![sessionId] = Append(@, [role |-> role, content |-> content])]

\* db.messages.getMessagesBySessionId(id): the session's rows, in insertion order
getMessagesBySessionId(table, id) == table[id]

HasCharacterFile(table, id) == \E row \in table : row.sessionId = id

\* db.characterFiles.getCharacterFileBySessionId(id): the row (null when absent)
getCharacterFileBySessionId(table, id) == CHOOSE row \in table : row.sessionId = id

\* db.characterFiles.createCharacterFile({content, sessionId}): replaces the
\* session's row (sessionId is @unique), stamping updatedAt
createCharacterFile(table, content, sessionId, at) ==
  {row \in table : row.sessionId # sessionId}
    \cup {[sessionId |-> sessionId, content |-> content, updatedAt |-> at]}

----------------------------------------------------------------------------
(* Context Store. *)

\* the store's ranking for a query, best match first
VectorStoreRanking(query) ==
  IF query = "u" THEN <<"k1", "k2", "k3", "k4">> ELSE <<>>

\* vectorStore.similaritySearch(query, k)
similaritySearch(query, k) == Slice(VectorStoreRanking(query), k)

----------------------------------------------------------------------------
(* Per-request state: the locals of one handler invocation and its response. *)

\* a stream of a stage: `src` is the state of the chain's stream ("none": the
\* stage was not entered, "failed": the generate call threw, "open",
\* "completed", "errored": the stream raised); `sent` lists the chunks the
\* chain's stream has emitted
NoStream == [src |-> "none", emitted |-> 0, queue |-> <<>>, closed |-> FALSE, sent |-> <<>>]

\* the run of characterChain: the model invocations made, whether the
\* generated candidate and the validator's output parse against
\* CharacterSchema, and the error the chain's stream raises
NoChain == [calls |-> <<>>, candidate |-> "", validated |-> "", error |-> ""]

\* the empty template initializeSession synthesizes when no row exists
EmptyCharacterFile ==
  [name |-> "", bio |-> <<>>, lore |-> <<>>, knowledge |-> <<>>,
   messageExamples |-> <<>>, postExamples |-> <<>>, topics |-> <<>>,
   style |-> [all |-> <<>>, chat |-> <<>>, post |-> <<>>],
   adjectives |-> <<>>, clients |-> <<>>, plugins |-> <<>>, modelProvider |-> "",
   settings |-> [secrets |-> <<>>, voice |-> [model |-> "en_US-male-medium"]]]

\* the arguments a stage is called with, before any call
NoInputs ==
  [sessionId |-> 0, userMessage |-> "", messageHistory |-> "", context |-> "",
   characterFile |-> EmptyCharacterFile]

IdleRequest ==
  [pc |-> "idle", kind |-> "none", sessionId |-> 0, message |-> "",
   actualSessionId |-> 0, messageHistory |-> "", context |-> "",
   characterFile |-> EmptyCharacterFile, fullReply |-> "", characterData |-> "",
   replyStream |-> NoStream, characterFileStream |-> NoStream, chain |-> NoChain,
   replyError |-> "", characterFileError |-> "",
   storedReply |-> FALSE, storedCharacterFile |-> FALSE,
   frames |-> <<>>, status |-> 0, ended |-> FALSE, outcome |-> "",
   config |-> [provider |-> "", apiKey |-> ""], llm |-> [provider |-> "", apiKey |-> ""],
   sessionMessages |-> <<>>,
   searches |-> <<>>, replyInputs |-> NoInputs, characterFileInputs |-> NoInputs]

\* res.headersSent: a JSON response or the first write sends the headers
headersSent(rec) == rec.frames # <<>> \/ rec.status # 0

\* res.write(`data: ${JSON.stringify(frame)}\n\n`)
Write(rec, frame) == [rec EXCEPT !.frames = Append(@, frame)]

DoneFrame == [type |-> "[DONE]"]

\* faulty variant: the sentinel frame is written but the response is not ended
FinishLeavingOpen(rec) == [Write(rec, DoneFrame) EXCEPT !.pc = "done"]

\* faulty variant: the response is ended without the sentinel frame
FinishWithoutSentinel(rec) == [rec EXCEPT !.ended = TRUE, !.pc = "done"]

\* res.write('data: [DONE]\n\n'); res.end()
Finish(rec) == [Write(rec, DoneFrame) EXCEPT !.ended = TRUE, !.pc = "done"]

\* res.status(code).json(...)
Respond(rec, code) == [rec EXCEPT !.status = code, !.ended = TRUE, !.pc = "done"]

----------------------------------------------------------------------------
(* Event frames of the response stream. *)

\* {type: 'reply', content: chunk.reply || chunk}
ReplyFrame(chunk) ==
  [type |-> "reply", content |-> IF Truthy(chunk) THEN chunk ELSE "{\"reply\":\"\"}"]

\* {type: 'characterFile', content: chunk}
CharacterFileFrame(chunk) == [type |-> "characterFile", content |-> chunk]

\* the errorChunk of the reply stage's catch
ReplyErrorFrame ==
  [type |-> "error", content |-> "Failed to generate reply. Please try again.",
   errorType |-> "replyError"]

\* isParsingError of the document stage's catch
isParsingError(thrown) == thrown = "OutputParserException"

\* the errorChunk of the document stage's catch
CharacterFileErrorFrame(thrown) ==
  [type |-> "error",
   content |-> IF isParsingError(thrown)
               THEN "Failed to parse character file. The AI generated incomplete or invalid JSON."
               ELSE "Failed to generate character file. Please try again.",
   errorType |-> "characterFileError", error |-> thrown]

\* the errorChunk of the outer catch
GeneralErrorFrame ==
  [type |-> "error", content |-> "An error occurred while processing your request",
   error |-> "generalError"]

\* faulty variant: the outer catch answers with the JSON error whatever was
\* already written
OuterCatchAlwaysJson(rec) == Respond([rec EXCEPT !.outcome = "generalError"], 500)

\* the outer catch of chat
OuterCatch(rec) ==
  LET caught == [rec EXCEPT !.outcome = "generalError"] IN
  IF ~headersSent(caught) THEN Respond(caught, 500)
  ELSE Finish(Write(caught, GeneralErrorFrame))

\* an exception leaving initializeSession: chat's outer catch handles it; a
\* direct caller sees the rethrown error
Throw(rec) ==
  IF rec.kind = "chat" THEN OuterCatch(rec)
  ELSE [rec EXCEPT !.pc = "done", !.outcome = "threw"]

\* the catch of the document stage: reading `message.includes` of a thrown value
\* whose message is not a string raises inside the catch and reaches the outer catch
CharacterFileCatch(rec, thrown) ==
  LET caught == [rec EXCEPT !.characterFileError = thrown] IN
  IF thrown = "nonStringMessage" THEN OuterCatch(caught)
  ELSE Finish(Write(caught, CharacterFileErrorFrame(thrown)))

\* the catch of the reply stage; the document stage follows
ReplyCatch(rec) ==
  [Write(rec, ReplyErrorFrame) EXCEPT !.replyError = "Error", !.pc = "doc_gen"]

----------------------------------------------------------------------------
(* LLMModelManager. *)

LLMProviders == {"OPENAI", "ANTHROPIC", "DEEPSEEK"}

\* the static _instance before the first construction
NoInstance == [provider |-> "", apiKey |-> ""]

\* the constructor returns (does not throw) for this config
ValidConfig(config) == Truthy(config.apiKey) /\ config.provider \in LLMProviders

\* values a caller may pass as config.provider: the enum and a value outside it
ProviderArgs == LLMProviders \cup {"OTHER"}

\* faulty variant: every call with a valid config replaces the instance
getInstanceLastWins(instance, config) ==
  IF ValidConfig(config) THEN config ELSE instance

\* faulty variant: the instance is installed before the constructor's checks
getInstanceInstallsOnFailure(instance, config) ==
  IF instance = NoInstance THEN config ELSE instance

\* the static _instance after getInstance(config)
getInstance(instance, config) ==
  IF instance = NoInstance /\ ValidConfig(config) THEN config ELSE instance

\* getInstance(config) throws
getInstanceThrows(instance, config) == instance = NoInstance /\ ~ValidConfig(config)

\* modelConfig of the controller
modelConfig == [provider |-> "ANTHROPIC", apiKey |-> env.apiKey]

----------------------------------------------------------------------------
(* Initial state: an empty store, no adapter instance, every slot idle. *)

Init ==
  /\ sessions = {}
  /\ messages = [id \in SessionIds |-> <<>>]
  /\ characterFiles = {}
  /\ now = 0
  /\ llmInstance = NoInstance
  /\ env \in [apiKey : ApiKeys]
  /\ req = [r \in Requests |-> IdleRequest]
  /\ initResponses = {}

Set(r, rec) == req' = [req EXCEPT ![r] = rec]

----------------------------------------------------------------------------
(* ElizaController.initSession. The new id is a uuid no client knows before *)
(* the response, so the handler's two store calls are one step.            *)

\* faulty variant: the initial message is stored twice
InitSessionStoringTwice(initialMessage, failAt) ==
  /\ sessions # SessionIds
  /\ failAt = "createMessage" => Truthy(initialMessage)
  /\ LET id == FreshSessionId IN
     /\ sessions' = IF failAt = "createSession" THEN sessions ELSE sessions \cup {id}
     /\ messages' = IF failAt = "none" /\ Truthy(initialMessage)
                    THEN createMessage(createMessage(messages, initialMessage, "user", id),
                                       initialMessage, "user", id)
                    ELSE messages
     /\ initResponses' = initResponses \cup
          {IF failAt = "none"
           THEN [status |-> 200, sessionId |-> id, initialMessage |-> initialMessage]
           ELSE [status |-> 500, sessionId |-> 0]}
  /\ UNCHANGED <<characterFiles, now, llmInstance, env, req>>

\* initSession: createSession, the optional createMessage, the response (kept
\* with the initialMessage of its request); `failAt` is the store call that
\* rejects ("none" when both succeed)
InitSession(initialMessage, failAt) ==
  /\ sessions # SessionIds
  /\ failAt = "createMessage" => Truthy(initialMessage)
  /\ LET id == FreshSessionId IN
     /\ sessions' = IF failAt = "createSession" THEN sessions ELSE sessions \cup {id}
     /\ messages' = IF failAt = "none" /\ Truthy(initialMessage)
                    THEN createMessage(messages, initialMessage, "user", id)
                    ELSE messages
     /\ initResponses' = initResponses \cup
          {IF failAt = "none"
           THEN [status |-> 200, sessionId |-> id, initialMessage |-> initialMessage]
           ELSE [status |-> 500, sessionId |-> 0]}
  /\ UNCHANGED <<characterFiles, now, llmInstance, env, req>>

----------------------------------------------------------------------------
(* ElizaController.chat, up to the call of initializeSession. *)

\* faulty variant: a request without sessionId goes on to initializeSession,
\* which creates a session for it
ChatReceiveAutoCreate(r, sessionId, message) ==
  /\ req[r].pc = "idle"
  /\ LET rec == [req[r] EXCEPT !.kind = "chat", !.sessionId = sessionId,
                               !.message = message]
         creates == sessionId = 0 \/ getSessionById(sessionId) IN
     /\ llmInstance' = IF creates THEN getInstance(llmInstance, modelConfig)
                       ELSE llmInstance
     /\ Set(r, IF ~creates THEN Respond(rec, 404)
               ELSE IF getInstanceThrows(llmInstance, modelConfig)
                    THEN OuterCatch([rec EXCEPT !.config = modelConfig])
               ELSE IF sessionId = 0
                    THEN [rec EXCEPT !.config = modelConfig,
                                     !.llm = getInstance(llmInstance, modelConfig),
                                     !.pc = "is_init"]
               ELSE [rec EXCEPT !.config = modelConfig,
                                !.llm = getInstance(llmInstance, modelConfig),
                                !.pc = "storeUser"])
  /\ UNCHANGED <<sessions, messages, characterFiles, now, env, initResponses>>

\* a chat request arrives: a missing sessionId is answered 400, an unknown
\* session 404; then ElizaGeneratorAgent.create, whose constructor calls
\* LLMModelManager.getInstance
ChatReceive(r, sessionId, message) ==
  /\ req[r].pc = "idle"
  /\ LET rec == [req[r] EXCEPT !.kind = "chat", !.sessionId = sessionId,
                               !.message = message]
         creates == sessionId # 0 /\ getSessionById(sessionId) IN
     /\ llmInstance' = IF creates THEN getInstance(llmInstance, modelConfig)
                       ELSE llmInstance
     /\ Set(r, IF sessionId = 0 THEN Respond(rec, 400)
               ELSE IF ~getSessionById(sessionId) THEN Respond(rec, 404)
               ELSE IF getInstanceThrows(llmInstance, modelConfig)
                    THEN OuterCatch([rec EXCEPT !.config = modelConfig])
               ELSE [rec EXCEPT !.config = modelConfig,
                                !.llm = getInstance(llmInstance, modelConfig),
                                !.pc = "storeUser"])
  /\ UNCHANGED <<sessions, messages, characterFiles, now, env, initResponses>>

\* LLMModelManager.getInstance(config) called by any other module of the process
LLMGetInstance(r, config) ==
  /\ req[r].pc = "idle"
  /\ llmInstance' = getInstance(llmInstance, config)
  /\ Set(r, IF getInstanceThrows(llmInstance, config)
            THEN [req[r] EXCEPT !.kind = "adapter", !.config = config,
                                !.pc = "done", !.outcome = "threw"]
            ELSE [req[r] EXCEPT !.kind = "adapter", !.config = config,
                                !.llm = getInstance(llmInstance, config),
                                !.pc = "done", !.outcome = "returned"])
  /\ UNCHANGED <<sessions, messages, characterFiles, now, env, initResponses>>

\* faulty variant: storing the user's message replaces the session's rows
ChatStoreUserMessageOverwrite(r) ==
  /\ req[r].pc = "storeUser"
  /\ messages' = [messages EXCEPT ![req[r].sessionId] =
                     <<[role |-> "user", content |-> req[r].message]>>]
  /\ Set(r, [req[r] EXCEPT !.pc = "is_init"])
  /\ UNCHANGED <<sessions, characterFiles, now, llmInstance, env, initResponses>>

\* faulty variant: the user's message is stored under every existing session
ChatStoreUserMessageBroadcast(r) ==
  /\ req[r].pc = "storeUser"
  /\ messages' = [s \in SessionIds |->
                    IF s \in sessions
                    THEN Append(messages[s], [role |-> "user", content |-> req[r].message])
                    ELSE messages[s]]
  /\ Set(r, [req[r] EXCEPT !.pc = "is_init"])
  /\ UNCHANGED <<sessions, characterFiles, now, llmInstance, env, initResponses>>

\* "Store the user's message in the database", then the call of initializeSession
ChatStoreUserMessage(r) ==
  /\ req[r].pc = "storeUser"
  /\ messages' = createMessage(messages, req[r].message, "user", req[r].sessionId)
  /\ Set(r, [req[r] EXCEPT !.pc = "is_init"])
  /\ UNCHANGED <<sessions, characterFiles, now, llmInstance, env, initResponses>>

----------------------------------------------------------------------------
(* ElizaGeneratorAgent.initializeSession. *)

\* initializeSession called on the agent directly, with any session id
AgentInitializeSession(r, sessionId, message) ==
  /\ req[r].pc = "idle"
  /\ Set(r, [req[r] EXCEPT !.kind = "agent", !.sessionId = sessionId,
                           !.message = message, !.pc = "is_init"])
  /\ UNCHANGED <<sessions, messages, characterFiles, now, llmInstance, env, initResponses>>

\* faulty variant: a session is created even when the given id exists
GetOrCreateSessionAlwaysCreate(r, initOk) ==
  /\ req[r].pc = "is_init"
  /\ initOk => sessions # SessionIds
  /\ LET id == FreshSessionId IN
     /\ sessions' = IF initOk THEN sessions \cup {id} ELSE sessions
     /\ messages' = IF initOk THEN createMessage(messages, req[r].message, "user", id)
                    ELSE messages
     /\ Set(r, IF initOk THEN [req[r] EXCEPT !.actualSessionId = id, !.pc = "is_search"]
               ELSE Throw(req[r]))
  /\ UNCHANGED <<characterFiles, now, llmInstance, env, initResponses>>

\* STEP 1 to 3: vectorStore.init(); get or create the session; store the user
\* message under session.id
GetOrCreateSession(r, initOk) ==
  /\ req[r].pc = "is_init"
  /\ initOk => getSessionById(req[r].sessionId) \/ sessions # SessionIds
  /\ LET id == IF getSessionById(req[r].sessionId) THEN req[r].sessionId
               ELSE FreshSessionId IN
     /\ sessions' = IF initOk THEN sessions \cup {id} ELSE sessions
     /\ messages' = IF initOk THEN createMessage(messages, req[r].message, "user", id)
                    ELSE messages
     /\ Set(r, IF initOk THEN [req[r] EXCEPT !.actualSessionId = id, !.pc = "is_search"]
               ELSE Throw(req[r]))
  /\ UNCHANGED <<characterFiles, now, llmInstance, env, initResponses>>

\* the line one message contributes to the history
HistoryLine(msg) ==
  (IF msg.role = "user" THEN "User Message" ELSE "Assistant Message") \o ": " \o msg.content

\* dbMessages.slice(0, dbMessages.length)
previousMessages(dbMessages) == Slice(dbMessages, Len(dbMessages))

\* faulty variant: the lines are joined newest first
messageHistoryReversed(dbMessages) ==
  LET prev == previousMessages(dbMessages) IN
  Join([i \in 1..Len(prev) |-> HistoryLine(prev[Len(prev) + 1 - i])], "\n")

\* the messageHistory string built from the session's rows
messageHistory(dbMessages) ==
  LET prev == previousMessages(dbMessages) IN
  Join([i \in 1..Len(prev) |-> HistoryLine(prev[i])], "\n")

\* faulty variant: the snippets are joined by a space
contextOfSpaceJoined(relevantDocs) == Join(relevantDocs, " ")

\* the context string built from the documents the search returned
contextOf(relevantDocs) == Join(relevantDocs, "\n")

\* STEP 4 and 5: similaritySearch(userMessage, 3) and the joined context; then
\* getMessagesBySessionId and the history string
FetchContextAndHistory(r, searchOk) ==
  /\ req[r].pc = "is_search"
  /\ Set(r, IF searchOk
            THEN [req[r] EXCEPT
                    !.searches = Append(@, [query |-> req[r].message, k |-> TopK]),
                    !.context = contextOf(similaritySearch(req[r].message, TopK)),
                    !.messageHistory =
                       messageHistory(getMessagesBySessionId(messages, req[r].actualSessionId)),
                    !.pc = "is_charfile"]
            ELSE Throw([req[r] EXCEPT
                         !.searches = Append(@, [query |-> req[r].message, k |-> TopK])]))
  /\ UNCHANGED <<sessions, messages, characterFiles, now, llmInstance, env, initResponses>>

\* faulty variant: reading the character file removes the row from the store
FetchCharacterFileConsuming(r) ==
  /\ req[r].pc = "is_charfile"
  /\ LET sid == req[r].actualSessionId
         file == IF HasCharacterFile(characterFiles, sid)
                 THEN getCharacterFileBySessionId(characterFiles, sid)
                 ELSE EmptyCharacterFile IN
     /\ characterFiles' = {row \in characterFiles : row.sessionId # sid}
     /\ Set(r, IF req[r].kind = "chat"
               THEN [req[r] EXCEPT !.characterFile = file, !.pc = "reply_gen"]
               ELSE [req[r] EXCEPT !.characterFile = file, !.pc = "done", !.outcome = "returned"])
  /\ UNCHANGED <<sessions, messages, now, llmInstance, env, initResponses>>

\* faulty variant: the template is returned whatever the store holds
FetchCharacterFileIgnoringStore(r) ==
  /\ req[r].pc = "is_charfile"
  /\ Set(r, IF req[r].kind = "chat"
            THEN [req[r] EXCEPT !.characterFile = EmptyCharacterFile, !.pc = "reply_gen"]
            ELSE [req[r] EXCEPT !.characterFile = EmptyCharacterFile, !.pc = "done",
                                !.outcome = "returned"])
  /\ UNCHANGED <<sessions, messages, characterFiles, now, llmInstance, env, initResponses>>

\* faulty variant: the synthesized template is written to the store
FetchCharacterFilePersistingTemplate(r) ==
  /\ req[r].pc = "is_charfile"
  /\ LET sid == req[r].actualSessionId
         has == HasCharacterFile(characterFiles, sid)
         file == IF has THEN getCharacterFileBySessionId(characterFiles, sid)
                 ELSE EmptyCharacterFile IN
     /\ characterFiles' = IF has THEN characterFiles
                          ELSE createCharacterFile(characterFiles, "template", sid, now)
     /\ Set(r, IF req[r].kind = "chat"
               THEN [req[r] EXCEPT !.characterFile = file, !.pc = "reply_gen"]
               ELSE [req[r] EXCEPT !.characterFile = file, !.pc = "done", !.outcome = "returned"])
  /\ UNCHANGED <<sessions, messages, now, llmInstance, env, initResponses>>

\* STEP 6: the stored character file or the empty template; return
FetchCharacterFile(r) ==
  /\ req[r].pc = "is_charfile"
  /\ LET sid == req[r].actualSessionId
         file == IF HasCharacterFile(characterFiles, sid)
                 THEN getCharacterFileBySessionId(characterFiles, sid)
                 ELSE EmptyCharacterFile IN
     Set(r, IF req[r].kind = "chat"
            THEN [req[r] EXCEPT !.characterFile = file, !.pc = "reply_gen"]
            ELSE [req[r] EXCEPT !.characterFile = file, !.pc = "done", !.outcome = "returned"])
  /\ UNCHANGED <<sessions, messages, characterFiles, now, llmInstance, env, initResponses>>

----------------------------------------------------------------------------
(* The in-memory variant of ElizaGeneratorAgent, as its controller uses it: *)
(* every chat request builds an agent with ElizaGeneratorAgent.create and   *)
(* calls initializeSession("1234", message) on it.                          *)

\* the sessionMessages entry of a newly constructed agent for a session id
NewSessionMessages == <<>>

\* the messageHistory string of the in-memory variant: the contents joined
memoryHistory(sessionMessages) ==
  Join([i \in 1..Len(sessionMessages) |-> sessionMessages[i].content], "\n")

\* create, then initializeSession of the in-memory variant: the message is
\* pushed onto the agent's sessionMessages entry and the history is built from
\* that entry; `ok` is the outcome of vectorStore.init() and the search
InMemoryInitializeSession(r, message, ok) ==
  /\ req[r].pc = "idle"
  /\ llmInstance' = getInstance(llmInstance, modelConfig)
  /\ LET rec == [req[r] EXCEPT !.kind = "memory", !.message = message, !.config = modelConfig]
         pushed == Append(NewSessionMessages, [role |-> "user", content |-> message]) IN
     Set(r, IF getInstanceThrows(llmInstance, modelConfig)
            THEN [rec EXCEPT !.pc = "done", !.outcome = "threw"]
            ELSE IF ~ok
            THEN [rec EXCEPT !.llm = getInstance(llmInstance, modelConfig),
                             !.pc = "done", !.outcome = "threw"]
            ELSE [rec EXCEPT !.llm = getInstance(llmInstance, modelConfig),
                             !.sessionMessages = pushed,
                             !.messageHistory = memoryHistory(pushed),
                             !.context = contextOf(similaritySearch(message, TopK)),
                             !.pc = "done", !.outcome = "returned"])
  /\ UNCHANGED <<sessions, messages, characterFiles, now, env, initResponses>>

----------------------------------------------------------------------------
(* addStreamLogging: a background task reads the chain's stream and writes  *)
(* each chunk into a TransformStream whose readable side the controller     *)
(* iterates. `src` is the state of the chain's stream, `queue` the chunk    *)
(* the transform holds, `closed` whether writer.close() ran. The task and   *)
(* the controller's loop touch only the request's own stream, so one chunk  *)
(* travelling from the chain to the response is one step.                   *)

\* for await (const chunk of stream) { await writer.write(chunk) }
forwardChunk(stream, chunk) ==
  [stream EXCEPT !.emitted = @ + 1, !.queue = Append(@, chunk), !.sent = Append(@, chunk)]

\* the chain's stream ends: the loop exits; finally writer.close()
closeOnEnd(stream) == [stream EXCEPT !.src = "completed", !.closed = TRUE]

\* the chain's stream raises: catch logs the error; finally writer.close()
closeOnError(stream) == [stream EXCEPT !.src = "errored", !.closed = TRUE]

\* the wrapped stream after the chain's stream ended, normally or by raising
closeStream(stream, raised) == IF raised THEN closeOnError(stream) ELSE closeOnEnd(stream)

\* the controller's for await reads the chunk at the head of the readable side
takeChunk(stream) == [stream EXCEPT !.queue = Tail(@)]

\* the controller's for await sees the readable side closed: the loop exits
\* normally, whatever closed the writer
loopExits(stream) == stream.queue = <<>> /\ stream.closed

----------------------------------------------------------------------------
(* ElizaController.chat: the reply stage. *)

\* the arguments the controller passes to generateReply and to
\* generateCharacterFile: the locals initializeSession's result was bound to
StageInputs(rec) ==
  [sessionId |-> rec.actualSessionId, userMessage |-> rec.message,
   messageHistory |-> rec.messageHistory, context |-> rec.context,
   characterFile |-> rec.characterFile]

\* faulty variant: the reply stream is opened but its loop is not awaited, so
\* the handler goes on to the document stage at once
GenerateReplyDetached(r, ok) ==
  /\ req[r].pc = "reply_gen"
  /\ Set(r, IF ok
            THEN [req[r] EXCEPT !.replyStream = [NoStream EXCEPT !.src = "open"],
                                !.replyInputs = StageInputs(req[r]),
                                !.pc = "doc_gen"]
            ELSE ReplyCatch([req[r] EXCEPT !.replyStream.src = "failed",
                                           !.replyInputs = StageInputs(req[r])]))
  /\ UNCHANGED <<sessions, messages, characterFiles, now, llmInstance, env, initResponses>>

\* generateReply: the chain's stream is opened, or the call throws into the
\* reply stage's catch
GenerateReply(r, ok) ==
  /\ req[r].pc = "reply_gen"
  /\ Set(r, IF ok
            THEN [req[r] EXCEPT !.replyStream = [NoStream EXCEPT !.src = "open"],
                                !.replyInputs = StageInputs(req[r]),
                                !.pc = "reply_loop"]
            ELSE ReplyCatch([req[r] EXCEPT !.replyStream.src = "failed",
                                           !.replyInputs = StageInputs(req[r])]))
  /\ UNCHANGED <<sessions, messages, characterFiles, now, llmInstance, env, initResponses>>

\* faulty variant: the chunk is put in front of the text accumulated so far
consumeReplyChunkPrepending(rec, chunk) ==
  Write([rec EXCEPT !.fullReply = IF Truthy(chunk) THEN chunk \o @ ELSE @],
        ReplyFrame(chunk))

\* one iteration of the reply loop: accumulate chunk.reply, write the frame
consumeReplyChunk(rec, chunk) ==
  Write([rec EXCEPT !.fullReply = IF Truthy(chunk) THEN @ \o chunk ELSE @],
        ReplyFrame(chunk))

\* the reply chain emits `chunk`; it is forwarded and the loop consumes it
ReadReplyChunk(r, chunk) ==
  /\ req[r].pc = "reply_loop"
  /\ req[r].replyStream.src = "open"
  /\ req[r].replyStream.emitted < MaxChunks
  /\ LET fed == forwardChunk(req[r].replyStream, chunk) IN
     Set(r, [consumeReplyChunk(req[r], Head(fed.queue))
               EXCEPT !.replyStream = takeChunk(fed)])
  /\ UNCHANGED <<sessions, messages, characterFiles, now, llmInstance, env, initResponses>>

\* faulty variant: the reply counts as written although createMessage rejected
storesReplyDespiteRejection(rec, dbOk) == Truthy(rec.fullReply)

\* faulty variant: the reply is not written at the end of the reply stage
storesReplyDeferred(rec, dbOk) == FALSE

\* if (fullReply) { await createMessage(...) }: the reply is written
storesReply(rec, dbOk) == Truthy(rec.fullReply) /\ dbOk

\* the reply chain's stream ends or raises; the reply loop ends; "Store the
\* complete reply in the database"; a rejected createMessage lands in the reply
\* stage's catch
EndReplyStream(r, raised, dbOk) ==
  /\ req[r].pc = "reply_loop"
  /\ req[r].replyStream.src = "open"
  /\ ~dbOk => Truthy(req[r].fullReply)
  /\ LET closed == closeStream(req[r].replyStream, raised)
         rec == [req[r] EXCEPT !.replyStream = closed] IN
     /\ loopExits(closed)
     /\ messages' = IF storesReply(rec, dbOk)
                    THEN createMessage(messages, rec.fullReply, "assistant",
                                       rec.actualSessionId)
                    ELSE messages
     /\ Set(r, IF dbOk
               THEN [rec EXCEPT !.storedReply = storesReply(rec, dbOk), !.pc = "doc_gen"]
               ELSE ReplyCatch(rec))
  /\ UNCHANGED <<sessions, characterFiles, now, llmInstance, env, initResponses>>

----------------------------------------------------------------------------
(* ElizaController.chat: the document stage and the end of the response. *)

\* faulty variant: the document stage reads the history from the store again
GenerateCharacterFileRereading(r, ok, thrown) ==
  /\ req[r].pc = "doc_gen"
  /\ ok => thrown = "Error"
  /\ LET inputs == [StageInputs(req[r]) EXCEPT
                     !.messageHistory =
                        messageHistory(getMessagesBySessionId(messages,
                                                              req[r].actualSessionId))] IN
     Set(r, IF ok
            THEN [req[r] EXCEPT !.characterFileStream = [NoStream EXCEPT !.src = "open"],
                                !.characterFileInputs = inputs,
                                !.pc = "doc_loop"]
            ELSE CharacterFileCatch([req[r] EXCEPT !.characterFileStream.src = "failed",
                                                   !.characterFileInputs = inputs],
                                    thrown))
  /\ UNCHANGED <<sessions, messages, characterFiles, now, llmInstance, env, initResponses>>

\* generateCharacterFile: the chain's stream is opened, or the call throws
\* `thrown` into the document stage's catch
GenerateCharacterFile(r, ok, thrown) ==
  /\ req[r].pc = "doc_gen"
  /\ ok => thrown = "Error"
  /\ Set(r, IF ok
            THEN [req[r] EXCEPT !.characterFileStream = [NoStream EXCEPT !.src = "open"],
                                !.characterFileInputs = StageInputs(req[r]),
                                !.pc = "doc_loop"]
            ELSE CharacterFileCatch([req[r] EXCEPT !.characterFileStream.src = "failed",
                                                   !.characterFileInputs = StageInputs(req[r])],
                                    thrown))
  /\ UNCHANGED <<sessions, messages, characterFiles, now, llmInstance, env, initResponses>>

\* "valid" / "invalid": whether a model output parses against CharacterSchema
Validity(parses) == IF parses THEN "valid" ELSE "invalid"

\* faulty variant: the fixing parser asks the model again when the fixed
\* completion does not parse either
fixingParserRetrying(completionValid, fixValid) ==
  [calls |-> IF completionValid THEN <<>> ELSE IF fixValid THEN <<"fix">> ELSE <<"fix", "fix">>,
   error |-> IF completionValid \/ fixValid THEN "" ELSE "OutputParserException"]

\* OutputFixingParser.fromLLM(model, parser).parse(completion): parser.parse;
\* on an OutputParserException one call of the retry chain, then parser.parse
\* of its output, whose exception is not caught
fixingParser(completionValid, fixValid) ==
  [calls |-> IF completionValid THEN <<>> ELSE <<"fix">>,
   error |-> IF completionValid \/ fixValid THEN "" ELSE "OutputParserException"]

\* faulty variant: the validator prompt is run only for a candidate that does
\* not parse
characterChainConditional(candidateValid, validatedValid, fixValid) ==
  LET validates == ~candidateValid
      parsed == fixingParser(candidateValid \/ validatedValid, fixValid) IN
  [calls |-> <<"generate">> \o (IF validates THEN <<"validate">> ELSE <<>>) \o parsed.calls,
   candidate |-> Validity(candidateValid),
   validated |-> Validity(candidateValid \/ validatedValid),
   error |-> parsed.error]

\* characterChain: elizaCharacterGeneratorSystemPrompt, model, StringOutputParser,
\* jsonValidatorPrompt, model, fixingParser
characterChain(candidateValid, validatedValid, fixValid) ==
  LET parsed == fixingParser(validatedValid, fixValid) IN
  [calls |-> <<"generate", "validate">> \o parsed.calls,
   candidate |-> Validity(candidateValid),
   validated |-> Validity(validatedValid),
   error |-> parsed.error]

\* the chain runs behind the stream generateCharacterFile returned: the model
\* outputs parse or do not (`fixValid` matters only when the fix is asked for)
RunCharacterChain(r, candidateValid, validatedValid, fixValid) ==
  /\ req[r].pc = "doc_loop"
  /\ req[r].characterFileStream.src = "open"
  /\ req[r].chain = NoChain
  /\ validatedValid => fixValid
  /\ Set(r, [req[r] EXCEPT !.chain = characterChain(candidateValid, validatedValid, fixValid)])
  /\ UNCHANGED <<sessions, messages, characterFiles, now, llmInstance, env, initResponses>>

\* faulty variant: the loop keeps the first chunk instead of the latest
consumeCharacterFileChunkKeepFirst(rec, chunk) ==
  Write([rec EXCEPT !.characterData = IF Truthy(@) THEN @ ELSE chunk],
        CharacterFileFrame(chunk))

\* faulty variant: the frame is written but the chunk is not kept
consumeCharacterFileChunkDropping(rec, chunk) == Write(rec, CharacterFileFrame(chunk))

\* one iteration of the document loop: keep the chunk, write the frame
consumeCharacterFileChunk(rec, chunk) ==
  Write([rec EXCEPT !.characterData = IF Truthy(chunk) THEN chunk ELSE @],
        CharacterFileFrame(chunk))

\* the document chain emits `chunk`; it is forwarded and the loop consumes it
ReadCharacterFileChunk(r, chunk) ==
  /\ req[r].pc = "doc_loop"
  /\ req[r].characterFileStream.src = "open"
  /\ req[r].characterFileStream.emitted < MaxChunks
  /\ req[r].chain # NoChain /\ req[r].chain.error = ""
  /\ LET fed == forwardChunk(req[r].characterFileStream, chunk) IN
     Set(r, [consumeCharacterFileChunk(req[r], Head(fed.queue))
               EXCEPT !.characterFileStream = takeChunk(fed)])
  /\ UNCHANGED <<sessions, messages, characterFiles, now, llmInstance, env, initResponses>>

\* the document chain's stream ends or raises; the document loop ends; "Store
\* the character file in the database"; a rejected createCharacterFile lands in
\* the document stage's catch; then the [DONE] frame and res.end()
EndCharacterFileStream(r, raised, dbOk) ==
  /\ req[r].pc = "doc_loop"
  /\ req[r].characterFileStream.src = "open"
  /\ ~dbOk => Truthy(req[r].characterData)
  /\ req[r].chain # NoChain
  /\ req[r].chain.error # "" => raised
  /\ LET closed == closeStream(req[r].characterFileStream, raised)
         rec == [req[r] EXCEPT !.characterFileStream = closed]
         stores == Truthy(rec.characterData) /\ dbOk IN
     /\ loopExits(closed)
     /\ characterFiles' = IF stores
                          THEN createCharacterFile(characterFiles, rec.characterData,
                                                   rec.actualSessionId, now + 1)
                          ELSE characterFiles
     /\ now' = IF stores THEN now + 1 ELSE now
     /\ Set(r, IF dbOk THEN Finish([rec EXCEPT !.storedCharacterFile = stores])
               ELSE CharacterFileCatch(rec, "Error"))
  /\ UNCHANGED <<sessions, messages, llmInstance, env, initResponses>>

----------------------------------------------------------------------------

\* where initSession may fail, given that calls have the outcomes OK
InitFailures(OK) ==
  {f \in {"none", "createSession", "createMessage"} : (f = "none") \in OK}

\* one step of the handlers serving the request slots R, with user messages
\* from M, reply chunks from RT, document chunks from DV, and the outcomes OK
\* (TRUE: succeeds, FALSE: fails) of the calls to the stores and the provider
Step(R, M, RT, DV, OK) ==
  \/ \E m \in M \cup {""}, f \in InitFailures(OK) : InitSession(m, f)
  \/ \E r \in R, s \in SessionArgs, m \in M : ChatReceive(r, s, m)
  \/ \E r \in R, p \in ProviderArgs, k \in ApiKeys :
       LLMGetInstance(r, [provider |-> p, apiKey |-> k])
  \/ \E r \in R : ChatStoreUserMessage(r)
  \/ \E r \in R, s \in SessionIds, m \in M : AgentInitializeSession(r, s, m)
  \/ \E r \in R, m \in M, ok \in OK : InMemoryInitializeSession(r, m, ok)
  \/ \E r \in R, ok \in OK : GetOrCreateSession(r, ok)
  \/ \E r \in R, ok \in OK : FetchContextAndHistory(r, ok)
  \/ \E r \in R : FetchCharacterFile(r)
  \/ \E r \in R, ok \in OK : GenerateReply(r, ok)
  \/ \E r \in R, c \in RT : ReadReplyChunk(r, c)
  \/ \E r \in R, ok \in OK, dbOk \in OK : EndReplyStream(r, ~ok, dbOk)
  \/ \E r \in R, ok \in OK, t \in ThrownValues : GenerateCharacterFile(r, ok, t)
  \/ \E r \in R, c \in OK, v \in OK, f \in OK : RunCharacterChain(r, c, v, f)
  \/ \E r \in R, c \in DV : ReadCharacterFileChunk(r, c)
  \/ \E r \in R, ok \in OK, dbOk \in OK : EndCharacterFileStream(r, ~ok, dbOk)

Next == Step(Requests, UserMsgs, ReplyTexts, DocValues, BOOLEAN)

Spec == Init /\ [][Next]_vars

\* one request at a time, every input and every failure
NextOne == Step({1}, UserMsgs, ReplyTexts, DocValues, BOOLEAN)
SpecOne == Init /\ [][NextOne]_vars

\* the steps at which the handler of request r waits for a call to return or
\* for a provider stream to complete or raise
AwaitReturns(r) ==
  \/ ChatStoreUserMessage(r)
  \/ \E ok \in BOOLEAN : GetOrCreateSession(r, ok)
  \/ \E ok \in BOOLEAN : FetchContextAndHistory(r, ok)
  \/ FetchCharacterFile(r)
  \/ \E ok \in BOOLEAN : GenerateReply(r, ok)
  \/ \E ok \in BOOLEAN, dbOk \in BOOLEAN : EndReplyStream(r, ~ok, dbOk)
  \/ \E ok \in BOOLEAN, t \in ThrownValues : GenerateCharacterFile(r, ok, t)
  \/ \E c \in BOOLEAN, v \in BOOLEAN, f \in BOOLEAN : RunCharacterChain(r, c, v, f)
  \/ \E ok \in BOOLEAN, dbOk \in BOOLEAN : EndCharacterFileStream(r, ~ok, dbOk)

\* one request at a time, every failure, under the assumption that every
\* awaited call returns and every opened stream completes or raises
NextLive == Step({1}, {"u"}, {"", "a"}, {"d1"}, BOOLEAN)
SpecLive == Init /\ [][NextLive]_vars /\ WF_vars(AwaitReturns(1))

\* overlapping requests, no call failing
NextOverlap == Step(Requests, {"u"}, {"a"}, DocValues, {TRUE})
SpecOverlap == Init /\ [][NextOverlap]_vars

----------------------------------------------------------------------------
(* Vocabulary of the properties. *)

ChatRequests == {r \in Requests : req[r].kind = "chat"}

\* the frame is an error event carrying errorType t
IsErrorOf(frame, t) ==
  frame.type = "error" /\ "errorType" \in DOMAIN frame /\ frame.errorType = t

\* how many error events with errorType t the response carries
ErrorCount(rec, t) ==
  Cardinality({i \in 1..Len(rec.frames) : IsErrorOf(rec.frames[i], t)})

HasFrameOfType(rec, type) == \E i \in 1..Len(rec.frames) : rec.frames[i].type = type

\* the provider call of the stage failed: the generate call threw, or the
\* chain's stream raised while it was read
ProviderFailed(stream) == stream.src \in {"failed", "errored"}

\* the document stage was attempted: generateCharacterFile was invoked
DocumentStageAttempted(rec) == rec.characterFileStream.src # "none"

\* the response ended as an event stream closed by the sentinel
EndsWithDone(rec) ==
  rec.ended /\ rec.frames # <<>> /\ rec.frames[Len(rec.frames)] = DoneFrame

----------------------------------------------------------------------------
(* C1: in every response that has written at least one SSE frame, the       *)
(* sentinel [DONE] occurs only as the last frame of the ended response      *)
(* (so exactly once, with nothing after it), and an ended response that     *)
(* streamed anything ends with it, whichever stages failed.                 *)
C1_SentinelTerminatesStream ==
  \A r \in Requests :
    LET f == req[r].frames IN
    /\ \A i \in 1..Len(f) : f[i] = DoneFrame => i = Len(f) /\ req[r].ended
    /\ req[r].ended /\ f # <<>> => f[Len(f)] = DoneFrame

\* a response that streamed a reply event and a document-stage error event
\* and has ended
C1_Witness ==
  \E r \in Requests :
    /\ req[r].ended
    /\ HasFrameOfType(req[r], "reply")
    /\ ErrorCount(req[r], "characterFileError") = 1

(* C2: whenever a stage of a chat request fails, exactly one error event    *)
(* with that stage's errorType is emitted, and a reply-stage failure never  *)
(* prevents generateCharacterFile from being invoked. Stated for provider   *)
(* failures that reach the stage as an Error or an OutputParserException.   *)
C2_OneErrorEventPerFailedStage ==
  \A r \in ChatRequests :
    req[r].pc = "done" /\ req[r].characterFileError # "nonStringMessage" =>
      /\ ProviderFailed(req[r].replyStream) =>
           ErrorCount(req[r], "replyError") = 1 /\ DocumentStageAttempted(req[r])
      /\ ProviderFailed(req[r].characterFileStream) =>
           ErrorCount(req[r], "characterFileError") = 1

(* C3: if the reply chain's stream raises after it was opened, the client   *)
(* receives exactly one error event with errorType replyError, the document *)
(* stage still runs and the stream still ends with [DONE].                  *)
C3_MidReplyFailureIsReported ==
  \A r \in ChatRequests :
    req[r].pc = "done" /\ req[r].replyStream.src = "errored" =>
      /\ ErrorCount(req[r], "replyError") = 1
      /\ DocumentStageAttempted(req[r])
      /\ EndsWithDone(req[r])

(* C4: if the document chain's stream raises while it is read (a parsing    *)
(* error after the repair attempt, or a provider error), the response       *)
(* carries an error event with errorType characterFileError.                *)
C4_DocumentStreamFailureIsReported ==
  \A r \in ChatRequests :
    req[r].pc = "done" /\ req[r].characterFileStream.src = "errored" =>
      ErrorCount(req[r], "characterFileError") >= 1

(* C5: the two stages of a chat request run one after the other:            *)
(* generateCharacterFile is not invoked before the reply stage has ended    *)
(* (its stream fully consumed, or failed), and in the response no reply     *)
(* event follows a characterFile event.                                     *)
C5_StagesRunInSequence ==
  \A r \in ChatRequests :
    /\ DocumentStageAttempted(req[r]) =>
         \/ req[r].replyStream.src = "failed"
         \/ /\ req[r].replyStream.src \in {"completed", "errored"}
            /\ req[r].replyStream.queue = <<>>
    /\ \A i, j \in 1..Len(req[r].frames) :
         req[r].frames[i].type = "characterFile" /\ req[r].frames[j].type = "reply"
           => j < i

\* a finished response carrying reply events and characterFile events
C5_Witness ==
  \E r \in ChatRequests :
    /\ req[r].pc = "done"
    /\ HasFrameOfType(req[r], "reply")
    /\ HasFrameOfType(req[r], "characterFile")

(* C6: the accumulated reply is persisted only if the reply stage           *)
(* succeeded and the accumulated document only if the document stage        *)
(* succeeded: a stage whose provider stream failed persists nothing.        *)
C6_FailedStagePersistsNothing ==
  \A r \in ChatRequests :
    /\ ProviderFailed(req[r].replyStream) => ~req[r].storedReply
    /\ ProviderFailed(req[r].characterFileStream) => ~req[r].storedCharacterFile

(* C7 as stated: no assistant Message is written before the document stage  *)
(* has finished, and the CharacterDocument is written after it.             *)
C7_PersistsAfterBothStages ==
  \A r \in ChatRequests :
    req[r].storedReply \/ req[r].storedCharacterFile =>
      req[r].characterFileStream.src \in {"failed", "completed", "errored"}

(* C7 amended: each stage persists its own result when its stream has been  *)
(* fully consumed: the assistant Message is written at the end of the reply *)
(* stage, before generateCharacterFile is invoked, and the                  *)
(* CharacterDocument at the end of the document stage; nothing is persisted *)
(* while the stage's stream is still being read.                            *)
C7_PersistsAtEndOfEachStage ==
  \A r \in ChatRequests :
    /\ req[r].storedReply =>
         req[r].replyStream.closed /\ req[r].replyStream.queue = <<>>
    /\ req[r].storedCharacterFile =>
         req[r].characterFileStream.closed /\ req[r].characterFileStream.queue = <<>>
    /\ DocumentStageAttempted(req[r]) /\ Truthy(req[r].fullReply) /\ req[r].replyError = ""
         => req[r].storedReply

\* the assistant Message is in the store and generateCharacterFile has not
\* been invoked yet
C7_Witness ==
  \E r \in ChatRequests :
    /\ req[r].storedReply
    /\ req[r].pc = "doc_gen"
    /\ \E i \in 1..Len(messages[req[r].actualSessionId]) :
         messages[req[r].actualSessionId][i] =
           [role |-> "assistant", content |-> req[r].fullReply]

(* C8: the message list of every session is append-only: whatever the       *)
(* handlers do, the list read before a step is a prefix of the list read    *)
(* after it (nothing is removed, reordered or changed).                     *)
C8_MessagesAppendOnly ==
  [][\A s \in SessionIds :
       IsPrefix(getMessagesBySessionId(messages, s), getMessagesBySessionId(messages', s))]_vars

\* a session holding an initial message, the user messages of a chat and its
\* assistant reply
C8_Witness ==
  \E s \in SessionIds :
    /\ Len(messages[s]) >= 4
    /\ \E i \in 1..Len(messages[s]) : messages[s][i].role = "assistant"

\* the content of the last characterFile event of the response
LastCharacterFileContent(rec) ==
  LET idx == {i \in 1..Len(rec.frames) : rec.frames[i].type = "characterFile"}
      last == CHOOSE i \in idx : \A j \in idx : j <= i
  IN rec.frames[last].content

(* C9: a session has at most one CharacterDocument, and when a document     *)
(* stage ends by writing its document, the session's stored document is the *)
(* final document of that cycle, replacing any document stored before.      *)
C9_DocumentUpsert ==
  [][/\ \A s \in SessionIds :
          Cardinality({row \in characterFiles' : row.sessionId = s}) <= 1
     /\ \A r \in Requests :
          req'[r].storedCharacterFile /\ ~req[r].storedCharacterFile =>
            {row.content : row \in {x \in characterFiles' :
                                      x.sessionId = req[r].actualSessionId}}
              = {LastCharacterFileContent(req'[r])}]_vars

\* the document of a session has been replaced by a second chat request whose
\* document stage emitted two different documents
C9_Witness ==
  \E r \in ChatRequests, row \in characterFiles :
    /\ req[r].storedCharacterFile
    /\ row.sessionId = req[r].actualSessionId
    /\ row.updatedAt = 2
    /\ req[r].characterFile # EmptyCharacterFile
    /\ req[r].characterFile.updatedAt = 1
    /\ req[r].characterFileStream.emitted = 2
    /\ row.content # req[r].frames[Len(req[r].frames) - 2].content

(* C10: when two chat requests on one session overlap, no update is lost:   *)
(* every appended message stays in the list, and a request never replaces a *)
(* document that was written after the request read its document snapshot.  *)
C10_NoLostUpdate ==
  [][/\ \A s \in SessionIds : IsPrefix(messages[s], messages'[s])
     /\ \A r \in Requests :
          req'[r].storedCharacterFile /\ ~req[r].storedCharacterFile
            /\ HasCharacterFile(characterFiles, req[r].actualSessionId) =>
              getCharacterFileBySessionId(characterFiles, req[r].actualSessionId)
                = req[r].characterFile]_vars

\* the session a request works on: the id it was called with until
\* initializeSession has resolved session.id
SessionOf(rec) == IF rec.actualSessionId # 0 THEN rec.actualSessionId ELSE rec.sessionId

\* the rows the store holds for session s
StoreOf(msgs, files, s) == <<msgs[s], {row \in files : row.sessionId = s}>>

(* C11: requests on different sessions are independent under every          *)
(* interleaving: a step of a handler changes the messages or the document   *)
(* of an existing session only if it is a step of a request on that         *)
(* session, it changes the state of no other request, and the history and   *)
(* the document a request reads are those of its own session.               *)
C11_SessionsIndependent ==
  [][/\ \A s \in sessions :
          StoreOf(messages', characterFiles', s) # StoreOf(messages, characterFiles, s) =>
            \E r \in Requests :
              /\ req'[r] # req[r]
              /\ SessionOf(req'[r]) = s
              /\ \A q \in Requests \ {r} : req'[q] = req[q]
     /\ \A r \in Requests :
          req'[r].kind \in {"chat", "agent"} =>
          /\ req'[r].messageHistory # req[r].messageHistory =>
               req'[r].messageHistory =
                 messageHistory(getMessagesBySessionId(messages, SessionOf(req[r])))
          /\ req'[r].characterFile # req[r].characterFile =>
               req'[r].characterFile.sessionId = SessionOf(req[r])]_vars

\* two chat requests on different sessions are both inside their document
\* stage, each having stored its reply under its own session
C11_Witness ==
  \E r, q \in ChatRequests :
    /\ req[r].actualSessionId # req[q].actualSessionId
    /\ req[r].pc = "doc_loop" /\ req[q].pc = "doc_loop"
    /\ req[r].storedReply /\ req[q].storedReply
    /\ Len(messages[req[r].actualSessionId]) = 3
    /\ Len(messages[req[q].actualSessionId]) = 3

\* how many invocations of the kind the chain made
CallCount(chain, kind) ==
  Cardinality({i \in 1..Len(chain.calls) : chain.calls[i] = kind})

C13_RepairOnlyAfterValidationFailure ==
  \A r \in ChatRequests :
    req[r].chain.candidate = "valid" => req[r].chain.calls = <<"generate">>

(* C13 amended: the validator prompt is run through the model after every   *)
(* generation, whether or not the candidate parses; only the fixing         *)
(* parser's re-prompt is conditional: it is made exactly when the           *)
(* validator's output does not parse against the schema.                    *)
C13_ValidatorAlwaysRuns ==
  \A r \in ChatRequests :
    req[r].chain # NoChain =>
      /\ Len(req[r].chain.calls) >= 2
      /\ req[r].chain.calls[1] = "generate" /\ req[r].chain.calls[2] = "validate"
      /\ CallCount(req[r].chain, "fix") = 1 <=> req[r].chain.validated = "invalid"

\* a document stage that emitted a document after a valid candidate went
\* through the validator call
C13_Witness ==
  \E r \in ChatRequests :
    /\ req[r].chain.candidate = "valid"
    /\ req[r].chain.calls = <<"generate", "validate">>
    /\ HasFrameOfType(req[r], "characterFile")

\* the message appended last to the session
LastMessage(msgs, s) == msgs[s][Len(msgs[s])]

(* C14: initializeSession(sessionId, userMessage) ensures the session       *)
(* exists and appends userMessage with role user: after its store writes    *)
(* and when it returns, the session of the returned sessionId exists and    *)
(* its most recently appended message is userMessage with role user; when   *)
(* the given sessionId existed at the call, the returned sessionId is it.   *)
C14_InitializeSessionEnsuresSession ==
  [][\A r \in Requests :
       LET userMessage == [role |-> "user", content |-> req[r].message] IN
       /\ req[r].pc = "is_init" /\ req'[r].pc = "is_search" =>
            /\ req'[r].actualSessionId \in sessions'
            /\ messages'[req'[r].actualSessionId] # <<>>
            /\ LastMessage(messages', req'[r].actualSessionId) = userMessage
            /\ getSessionById(req[r].sessionId) =>
                 req'[r].actualSessionId = req[r].sessionId
       /\ req[r].pc = "is_charfile" /\ req'[r].pc # "is_charfile" =>
            /\ req'[r].actualSessionId \in sessions'
            /\ LastMessage(messages', req'[r].actualSessionId) = userMessage]_vars

\* initializeSession, called on the agent, has returned the id of a session
\* that existed with a message before the call and now ends with the user
\* message
C14_Witness ==
  \E r \in Requests :
    /\ req[r].kind = "agent" /\ req[r].outcome = "returned"
    /\ req[r].actualSessionId = req[r].sessionId
    /\ Len(messages[req[r].actualSessionId]) = 2
    /\ messages[req[r].actualSessionId][1].content # req[r].message
    /\ LastMessage(messages, req[r].actualSessionId) =
         [role |-> "user", content |-> req[r].message]

\* the request is inside initializeSession
InInitializeSession(rec) == rec.pc \in {"is_init", "is_search", "is_charfile"}

(* C15: initializeSession performs no model generation and its only writes  *)
(* are the creation of the session (if absent) and the append of the user   *)
(* message: no step of it creates or changes a CharacterDocument (the       *)
(* synthesized empty document is returned, not persisted), changes an       *)
(* existing message, opens a provider stream or writes to the response.     *)
C15_InitializeSessionWritesOnlyMessage ==
  [][\A r \in Requests :
       InInitializeSession(req[r]) /\ req'[r] # req[r] =>
         LET userMessage == [role |-> "user", content |-> req[r].message]
             changed == {s \in SessionIds : messages'[s] # messages[s]} IN
         /\ characterFiles' = characterFiles
         /\ sessions \subseteq sessions'
         /\ Cardinality(sessions' \ sessions) <= 1
         /\ getSessionById(req[r].sessionId) => sessions' = sessions
         /\ Cardinality(changed) <= 1
         /\ \A s \in changed : messages'[s] = Append(messages[s], userMessage)
         /\ req[r].pc # "is_init" => changed = {} /\ sessions' = sessions
         /\ req'[r].replyStream = NoStream
         /\ req'[r].characterFileStream = NoStream
         /\ req'[r].chain = NoChain
         /\ req'[r].frames = req[r].frames
         /\ llmInstance' = llmInstance]_vars

\* initializeSession, called on the agent with an unknown id, has created a
\* session, stored the user message and returned the empty template, and the
\* store holds no document
C15_Witness ==
  \E r \in Requests :
    /\ req[r].kind = "agent" /\ req[r].outcome = "returned"
    /\ sessions = {req[r].actualSessionId}
    /\ messages[req[r].actualSessionId] = <<[role |-> "user", content |-> req[r].message]>>
    /\ req[r].characterFile = EmptyCharacterFile
    /\ characterFiles = {}

\* the step is the arrival of a chat request of slot r that carries no sessionId
ArrivesWithoutSessionId(r) ==
  req[r].pc = "idle" /\ req'[r].kind = "chat" /\ req'[r].sessionId = 0

GeneralErrorCount(rec) ==
  Cardinality({i \in 1..Len(rec.frames) : rec.frames[i] = GeneralErrorFrame})

(* C17: an exception that reaches the outer catch of chat is surfaced in    *)
(* exactly one of two ways: as an HTTP 500 JSON response with no SSE frame  *)
(* when nothing was sent before, or, when output was already sent, as one   *)
(* terminal error event followed by [DONE]; never both, never neither.      *)
C17_GeneralErrorSurfacedOnce ==
  \A r \in ChatRequests :
    req[r].outcome = "generalError" =>
      LET f == req[r].frames IN
      /\ req[r].ended
      /\ \/ req[r].status = 500 /\ f = <<>>
         \/ /\ req[r].status = 0
            /\ Len(f) >= 3
            /\ f[Len(f)] = DoneFrame
            /\ f[Len(f) - 1] = GeneralErrorFrame
            /\ GeneralErrorCount(req[r]) = 1

\* the outer catch ran after reply events had been streamed
C17_Witness ==
  \E r \in ChatRequests :
    /\ req[r].outcome = "generalError"
    /\ HasFrameOfType(req[r], "reply")
    /\ GeneralErrorCount(req[r]) = 1
    /\ EndsWithDone(req[r])

(* C18: every error event written to the event stream, the terminal general *)
(* error event of the outer catch included, carries an errorType field.     *)
C18_ErrorEventsCarryErrorType ==
  \A r \in ChatRequests :
    \A i \in 1..Len(req[r].frames) :
      req[r].frames[i].type = "error" => "errorType" \in DOMAIN req[r].frames[i]

RECURSIVE RenderedHistory(_)
\* the rendering the history is expected to have, built from the newest
\* message backwards
RenderedHistory(msgs) ==
  IF msgs = <<>> THEN ""
  ELSE LET n == Len(msgs)
           line == IF msgs[n].role = "user"
                   THEN "User Message: " \o msgs[n].content
                   ELSE "Assistant Message: " \o msgs[n].content
       IN IF n = 1 THEN line
          ELSE RenderedHistory(SubSeq(msgs, 1, n - 1)) \o "\n" \o line

ArrayFieldsEmpty(doc) ==
  /\ \A f \in {"bio", "lore", "knowledge", "messageExamples", "postExamples",
                "topics", "adjectives", "clients", "plugins"} : doc[f] = <<>>
  /\ \A f \in {"all", "chat", "post"} : doc.style[f] = <<>>
  /\ doc.settings.secrets = <<>>

\* initializeSession returns in this step for slot r
InitializeSessionReturns(r) == req[r].pc = "is_charfile" /\ req'[r].pc # "is_charfile"

(* C20 as stated: without a CharacterDocument initializeSession returns a   *)
(* synthesized document whose array fields are all empty and whose scalar   *)
(* fields are all blank; with one, it returns the stored document.          *)
C20_EmptyDocumentAllBlank ==
  [][\A r \in Requests :
       InitializeSessionReturns(r) =>
         IF HasCharacterFile(characterFiles, req[r].actualSessionId)
         THEN req'[r].characterFile =
                getCharacterFileBySessionId(characterFiles, req[r].actualSessionId)
         ELSE /\ ArrayFieldsEmpty(req'[r].characterFile)
              /\ req'[r].characterFile.name = ""
              /\ req'[r].characterFile.modelProvider = ""
              /\ req'[r].characterFile.settings.voice.model = ""]_vars

(* C20 amended: without a CharacterDocument initializeSession returns a     *)
(* synthesized document whose array fields and secrets are empty and whose  *)
(* name and modelProvider are blank, but whose settings.voice.model is      *)
(* preset to "en_US-male-medium"; with one, it returns the stored document. *)
C20_EmptyDocumentTemplate ==
  [][\A r \in Requests :
       InitializeSessionReturns(r) =>
         IF HasCharacterFile(characterFiles, req[r].actualSessionId)
         THEN req'[r].characterFile =
                getCharacterFileBySessionId(characterFiles, req[r].actualSessionId)
         ELSE /\ ArrayFieldsEmpty(req'[r].characterFile)
              /\ req'[r].characterFile.name = ""
              /\ req'[r].characterFile.modelProvider = ""
              /\ req'[r].characterFile.settings.voice.model = "en_US-male-medium"]_vars

\* one request was handed the synthesized document, and a later one on the
\* same session the document the first had stored
C20_Witness ==
  \E r, q \in Requests :
    /\ req[r].pc = "done" /\ req[r].storedCharacterFile
    /\ req[r].characterFile = EmptyCharacterFile
    /\ req[q].pc = "reply_gen"
    /\ req[q].actualSessionId = req[r].actualSessionId
    /\ req[q].characterFile \in characterFiles

\* getInstance is called in this step on behalf of slot r
CallsGetInstance(r) ==
  req[r].pc = "idle" /\ req'[r].config # IdleRequest.config

(* C21: the model provider adapter is a first-call-wins singleton: once a   *)
(* getInstance call has succeeded, the installed instance is never          *)
(* replaced, and every later getInstance call, with the same or another     *)
(* config and from any request, returns that instance.                      *)
C21_FirstCallWins ==
  [][/\ llmInstance # NoInstance => llmInstance' = llmInstance
     /\ \A r \in Requests :
          CallsGetInstance(r) /\ llmInstance # NoInstance =>
            req'[r].llm = llmInstance /\ req'[r].outcome # "threw"
                                      /\ req'[r].outcome # "generalError"]_vars

\* a chat request, configured for ANTHROPIC, holds the adapter an earlier
\* call built for another provider
C21_Witness ==
  \E r \in ChatRequests :
    /\ req[r].config.provider = "ANTHROPIC"
    /\ req[r].llm # NoInstance
    /\ req[r].llm.provider = "OPENAI"
    /\ llmInstance = req[r].llm

(* C22: constructing the adapter fails if apiKey is empty or provider is    *)
(* not OPENAI, ANTHROPIC or DEEPSEEK; a failed construction installs no     *)
(* instance, so a later getInstance with a valid config constructs the      *)
(* adapter for that config and returns it.                                  *)
C22_FailedConstructionInstallsNothing ==
  [][\A r \in Requests :
       CallsGetInstance(r) /\ llmInstance = NoInstance =>
         LET config == req'[r].config
             valid == config.apiKey # "" /\ config.provider \in {"OPENAI", "ANTHROPIC", "DEEPSEEK"} IN
         IF valid
         THEN /\ llmInstance' = config /\ req'[r].llm = config
              /\ req'[r].outcome \notin {"threw", "generalError"}
         ELSE /\ llmInstance' = NoInstance /\ req'[r].llm = NoInstance
              /\ req'[r].outcome \in {"threw", "generalError"}]_vars

\* a construction failed on an unknown provider and a later call with a
\* valid config built the adapter
C22_Witness ==
  \E r, q \in Requests :
    /\ req[r].kind = "adapter" /\ req[r].outcome = "threw"
    /\ req[r].config.provider = "OTHER" /\ req[r].config.apiKey = "sk"
    /\ req[q].outcome = "returned" /\ req[q].llm = req[q].config
    /\ llmInstance = req[q].config

\* what a read of the session's document returns: the stored row, or the
\* synthesized document when there is none
ReadDocument(files, s) ==
  IF HasCharacterFile(files, s) THEN getCharacterFileBySessionId(files, s)
  ELSE EmptyCharacterFile

\* slot r writes the document of session s in this step
WritesDocument(r, s) ==
  /\ req'[r].storedCharacterFile /\ ~req[r].storedCharacterFile
  /\ req[r].actualSessionId = s

(* C23: reading a session's document twice with no document write to that  *)
(* session in between returns identical content: no step other than a       *)
(* document write to the session changes what a read of it returns,         *)
(* whatever is done on other sessions and whatever messages are appended to *)
(* the same session.                                                        *)
C23_DocumentReadStable ==
  [][\A s \in SessionIds :
       (\A r \in Requests : ~WritesDocument(r, s)) =>
         ReadDocument(characterFiles', s) = ReadDocument(characterFiles, s)]_vars

\* a request read the stored document of its session, its reply was then
\* appended to the session's messages, and a read of the session's document
\* still returns what the request read
C23_Witness ==
  \E q \in ChatRequests :
    /\ req[q].characterFile \in characterFiles
    /\ req[q].storedReply
    /\ Len(messages[req[q].actualSessionId]) >= 6
    /\ ReadDocument(characterFiles, req[q].actualSessionId) = req[q].characterFile

(* C24: initSession creates a session with a fresh id, distinct from every  *)
(* existing id, with no CharacterDocument and an empty message list, or a   *)
(* list holding exactly the supplied initialMessage with role user; the     *)
(* response carries the new id; a failing initSession answers with an       *)
(* error that carries no session id.                                        *)
C24_InitSessionCreatesFreshSession ==
  [][\A resp \in initResponses' \ initResponses :
       IF resp.status = 200
       THEN /\ resp.sessionId \notin sessions
            /\ sessions' = sessions \cup {resp.sessionId}
            /\ ~HasCharacterFile(characterFiles', resp.sessionId)
            /\ messages'[resp.sessionId] =
                 IF resp.initialMessage = "" THEN <<>>
                 ELSE <<[role |-> "user", content |-> resp.initialMessage]>>
            /\ \A s \in sessions : messages'[s] = messages[s]
       ELSE /\ resp.status = 500
            /\ resp.sessionId = 0
            /\ messages' = messages]_vars

\* two sessions were initialized, one with an initial message and one
\* without, and a third initSession failed
C24_Witness ==
  /\ \E a, b \in initResponses :
       /\ a.status = 200 /\ b.status = 200 /\ a.sessionId # b.sessionId
       /\ a.initialMessage = "u" /\ messages[a.sessionId][1].content = "u"
       /\ b.initialMessage = ""
  /\ \E c \in initResponses : c.status = 500

RECURSIVE Concat(_)
\* the fragments put one after the other
Concat(fragments) ==
  IF fragments = <<>> THEN "" ELSE Head(fragments) \o Concat(Tail(fragments))

\* the reply events of the response, in the order they were written
ReplyEvents(rec) == SelectSeq(rec.frames, LAMBDA f : f.type = "reply")

(* C25: reply fragments reach the client in exactly the order the provider  *)
(* stream emits them, one reply event per fragment, none reordered, dropped *)
(* or duplicated, and the text persisted as the assistant Message is the    *)
(* in-order concatenation of the forwarded fragments.                       *)
C25_ReplyFragmentsInOrder ==
  \A r \in ChatRequests :
    LET sent == req[r].replyStream.sent
        events == ReplyEvents(req[r]) IN
    /\ req[r].replyStream.queue = <<>>
    /\ Len(events) = Len(sent)
    /\ \A i \in 1..Len(sent) :
         events[i].content = IF sent[i] = "" THEN "{\"reply\":\"\"}" ELSE sent[i]
    /\ req[r].storedReply =>
         \E i \in 1..Len(messages[req[r].actualSessionId]) :
           messages[req[r].actualSessionId][i] =
             [role |-> "assistant", content |-> Concat(sent)]

\* the provider emitted "a" then "b", both were forwarded and the reply was
\* stored
C25_Witness ==
  \E r \in ChatRequests :
    /\ req[r].replyStream.sent = <<"a", "b">>
    /\ req[r].storedReply
    /\ Len(ReplyEvents(req[r])) = 2

\* requests served by the in-memory variant whose initializeSession returned
MemoryRequests ==
  {r \in Requests : req[r].kind = "memory" /\ req[r].outcome = "returned"}

(* C26: in the in-memory variant the messages of a session are kept for the *)
(* lifetime of the process: when two chat requests on the session id have   *)
(* been served, the history assembled for the later one holds the message   *)
(* of the earlier one followed by its own.                                  *)
C26_InMemoryHistoryKept ==
  \A r, q \in MemoryRequests :
    r # q =>
      \/ req[r].messageHistory = req[q].message \o "\n" \o req[r].message
      \/ req[q].messageHistory = req[r].message \o "\n" \o req[q].message

\* the messages initSession left in session s: its initial message, if any
InitialMessages(s) ==
  IF \E resp \in initResponses :
       resp.status = 200 /\ resp.sessionId = s /\ resp.initialMessage # ""
  THEN LET resp == CHOOSE x \in initResponses : x.status = 200 /\ x.sessionId = s
       IN <<[role |-> "user", content |-> resp.initialMessage]>>
  ELSE <<>>

\* how many rows of the list have the role
RoleCount(msgs, role) == Cardinality({i \in 1..Len(msgs) : msgs[i].role = role})

\* the chat request has reached its streaming phase
ReachedStreaming(rec) == rec.kind = "chat" /\ rec.replyStream.src # "none"

(* C27: each accepted chat request appends the turn's user message exactly  *)
(* once: once the request has reached the streaming phase, the session's    *)
(* list has grown by exactly one user message, plus at most one assistant   *)
(* message. Stated for a single request on a session made by initSession.   *)
C27_UserMessageAppendedOnce ==
  \A r \in Requests :
    ReachedStreaming(req[r]) =>
      LET s == req[r].actualSessionId IN
      /\ RoleCount(messages[s], "user") = RoleCount(InitialMessages(s), "user") + 1
      /\ RoleCount(messages[s], "assistant") <= 1

(* C28: the history initializeSession returns excludes the current user     *)
(* message: it renders the rows the session held before this call appended  *)
(* the current one.                                                         *)
C28_HistoryExcludesCurrentMessage ==
  [][\A r \in Requests :
       req[r].pc = "is_search" /\ req'[r].pc = "is_charfile" =>
         LET rows == getMessagesBySessionId(messages, req[r].actualSessionId) IN
         req'[r].messageHistory = RenderedHistory(SubSeq(rows, 1, Len(rows) - 1))]_vars

(* C29: a chat request that ends with a non-stream error response (400,     *)
(* 404 or 500) leaves the Session Store unchanged: no session created, no   *)
(* message appended, no document written. Stated for a single request: the  *)
(* session it names holds what initSession left there.                      *)
C29_ErrorResponseLeavesStoreUnchanged ==
  \A r \in ChatRequests :
    req[r].status \in {400, 404, 500} =>
      /\ \A s \in sessions :
           /\ messages[s] = InitialMessages(s)
           /\ ~HasCharacterFile(characterFiles, s)
      /\ \A s \in SessionIds \ sessions : messages[s] = <<>>

\* initializeSession was called on the agent directly and has resolved its session
AgentCalls == {r \in Requests : req[r].kind = "agent" /\ req[r].actualSessionId # 0}

(* C30: two calls of initializeSession with the same session id, unknown    *)
(* before the first, put both user messages into one session: the second    *)
(* call finds the session of the first and both return the same sessionId.  *)
C30_SameIdSameSession ==
  \A r, q \in AgentCalls :
    req[r].sessionId = req[q].sessionId =>
      req[r].actualSessionId = req[q].actualSessionId

\* the contents of the documents stored for session s
StoredDocuments(s) == {row.content : row \in {x \in characterFiles : x.sessionId = s}}

(* C31: when the document stage succeeds, the document persisted for the    *)
(* session is the content of the last characterFile event sent in that      *)
(* request, which is the final item the stage emitted; when the stage       *)
(* emitted no item, no document is persisted. Stated for a single request.  *)
C31_PersistedDocumentIsLastEvent ==
  \A r \in ChatRequests :
    LET sent == req[r].characterFileStream.sent
        s == req[r].actualSessionId IN
    /\ req[r].storedCharacterFile =>
         /\ sent # <<>>
         /\ StoredDocuments(s) = {sent[Len(sent)]}
         /\ LastCharacterFileContent(req[r]) = sent[Len(sent)]
    /\ req[r].pc = "done" /\ req[r].characterFileStream.src = "completed"
         /\ req[r].characterFileError = "" /\ sent # <<>> => req[r].storedCharacterFile
    /\ s # 0 /\ ~HasFrameOfType(req[r], "characterFile") =>
         ~req[r].storedCharacterFile /\ StoredDocuments(s) = {}

\* a document stage completed after emitting two different documents and
\* the second is the one stored
C31_Witness ==
  \E r \in ChatRequests :
    /\ req[r].characterFileStream.src = "completed"
    /\ req[r].characterFileStream.sent = <<"d1", "d2">>
    /\ req[r].storedCharacterFile
    /\ StoredDocuments(req[r].actualSessionId) = {"d2"}

\* the assistant rows of the session's message list
AssistantMessages(s) ==
  {messages[s][i].content : i \in {j \in 1..Len(messages[s]) : messages[s][j].role = "assistant"}}

(* C32: in a chat stream, a replyError event implies that the request       *)
(* persisted no assistant Message and a characterFileError event that it    *)
(* wrote no CharacterDocument; conversely a stage that ended without an     *)
(* error event has its result persisted (a non-empty reply, a non-null      *)
(* document). Stated for a single request.                                  *)
C32_ErrorEventMeansNotPersisted ==
  \A r \in ChatRequests :
    LET s == req[r].actualSessionId IN
    /\ ErrorCount(req[r], "replyError") >= 1 =>
         ~req[r].storedReply /\ AssistantMessages(s) = {}
    /\ ErrorCount(req[r], "characterFileError") >= 1 =>
         ~req[r].storedCharacterFile /\ StoredDocuments(s) = {}
    /\ req[r].pc \in {"doc_gen", "doc_loop", "done"} /\ req[r].replyStream.src # "none"
         /\ ErrorCount(req[r], "replyError") = 0 /\ req[r].fullReply # "" =>
           req[r].storedReply /\ AssistantMessages(s) = {req[r].fullReply}
    /\ req[r].pc = "done" /\ req[r].characterFileStream.src \in {"completed", "errored"}
         /\ ErrorCount(req[r], "characterFileError") = 0 /\ req[r].outcome # "generalError"
         /\ req[r].characterData # "" =>
           req[r].storedCharacterFile /\ StoredDocuments(s) = {req[r].characterData}

\* a response carrying a replyError event raised by the rejected write of a
\* streamed reply, followed by a stored document
C32_Witness ==
  \E r \in ChatRequests :
    /\ req[r].pc = "done"
    /\ HasFrameOfType(req[r], "reply")
    /\ ErrorCount(req[r], "replyError") = 1
    /\ AssistantMessages(req[r].actualSessionId) = {}
    /\ req[r].storedCharacterFile

\* what initializeSession returned to the chat handler of request r
InitializeSessionResult(rec) ==
  [sessionId |-> rec.actualSessionId, userMessage |-> rec.message,
   messageHistory |-> rec.messageHistory, context |-> rec.context,
   characterFile |-> rec.characterFile]

(* C33: both stages of a chat request consume the same snapshot: once       *)
(* initializeSession has returned, what it returned never changes; the      *)
(* reply stage is called with it, and the document stage is called with     *)
(* exactly the arguments of the reply stage, whatever the reply stage       *)
(* wrote in between (the persisted assistant reply included).               *)
C33_StagesShareSnapshot ==
  [][\A r \in Requests :
       /\ req[r].kind = "chat" /\ req[r].pc \in {"reply_gen", "reply_loop", "doc_gen", "doc_loop"} =>
              InitializeSessionResult(req'[r]) = InitializeSessionResult(req[r])
       /\ req'[r].kind = "chat" /\ req'[r].replyStream.src # "none" =>
              req'[r].replyInputs = InitializeSessionResult(req'[r])
       /\ req'[r].kind = "chat" /\ req'[r].characterFileStream.src # "none" =>
              req'[r].characterFileInputs = req'[r].replyInputs]_vars

\* the document stage was called after the reply stage stored its reply, so
\* the session's rows no longer render to the history both stages were given
C33_Witness ==
  \E r \in ChatRequests :
    /\ req[r].storedReply
    /\ req[r].characterFileStream.src = "open"
    /\ req[r].characterFileInputs = req[r].replyInputs
    /\ req[r].replyInputs.messageHistory = "User Message: u\nUser Message: u"
    /\ messageHistory(getMessagesBySessionId(messages, req[r].actualSessionId))
         # req[r].replyInputs.messageHistory

\* the newline join of the first n snippets of a ranking, best match first
RECURSIVE FirstSnippets(_, _)
FirstSnippets(ranking, n) ==
  IF n = 0 THEN ""
  ELSE IF n = 1 THEN ranking[1]
  ELSE FirstSnippets(ranking, n - 1) \o "\n" \o ranking[n]

\* the context the claim prescribes for a query
PrescribedContext(query) ==
  LET ranking == VectorStoreRanking(query)
      n == IF Len(ranking) < 3 THEN Len(ranking) ELSE 3 IN
  FirstSnippets(ranking, n)

(* C35: initializeSession queries the Context Store exactly once, with the  *)
(* raw user message and k = 3, after the user message has been appended;    *)
(* the returned context is the content of the at most 3 returned snippets   *)
(* joined by newline, best match first, and "" when none is returned.       *)
C35_ContextFromOneSearch ==
  [][\A r \in Requests :
       req'[r].kind \in {"chat", "agent"} =>
         LET rec == req'[r]
             s == rec.actualSessionId IN
         /\ Len(rec.searches) <= 1
         /\ rec.searches # req[r].searches =>
              /\ rec.searches = <<[query |-> rec.message, k |-> 3]>>
              /\ Len(messages[s]) > 0
              /\ messages[s][Len(messages[s])].role = "user"
              /\ messages[s][Len(messages[s])].content = rec.message
         /\ rec.pc \in {"is_charfile", "reply_gen", "reply_loop", "doc_gen", "doc_loop"}
              \/ (rec.pc = "done" /\ (rec.outcome = "returned" \/ rec.replyStream.src # "none")) =>
              /\ Len(rec.searches) = 1
              /\ rec.context = PrescribedContext(rec.message)]_vars

\* a request whose search found more than three snippets got the best three
C35_Witness ==
  \E r \in Requests :
    /\ req[r].kind \in {"chat", "agent"}
    /\ req[r].searches = <<[query |-> "u", k |-> 3]>>
    /\ Len(VectorStoreRanking("u")) > 3
    /\ req[r].context = "k1\nk2\nk3"

\* a request whose search found nothing got the empty context
C35_WitnessEmpty ==
  \E r \in Requests :
    /\ req[r].kind \in {"chat", "agent"}
    /\ req[r].searches = <<[query |-> "v", k |-> 3]>>
    /\ req[r].pc = "reply_gen"
    /\ req[r].context = ""

\* the response is finished: a non-stream error response, or a stream whose
\* last frame is [DONE], and the response is ended
Finished(rec) ==
  /\ rec.ended
  /\ \/ rec.frames = <<>> /\ rec.status \in {400, 404, 500}
     \/ EndsWithDone(rec)

(* C34: if every awaited store call returns and every provider stream       *)
(* completes or raises, every chat request eventually finishes its          *)
(* response: a non-stream error response, or [DONE] written and the         *)
(* response ended.                                                          *)
C34_ChatEventuallyFinishes ==
  \A r \in Requests : (req[r].kind = "chat") ~> Finished(req[r])

\* a response finished with [DONE] although both provider streams raised
C34_Witness ==
  \E r \in ChatRequests :
    /\ Finished(req[r])
    /\ req[r].replyStream.src = "errored"
    /\ req[r].characterFileStream.src = "errored"
    /\ EndsWithDone(req[r])

====
